---- MODULE Spec2Model ----
(***************************************************************************)
(* Model of mood/splitter.py: the two cluster-based splitters              *)
(* (PerimeterSplit, MaxDissimilaritySplit) and the MOODSplitter that       *)
(* characterizes candidate splitters and prescribes the best one.          *)
(*                                                                         *)
(* Conventions.  Arrays the code indexes from 0 (group_indices,            *)
(* distance_matrix, tril_indices) are functions on 0..n-1; Python lists    *)
(* that grow (train_indices, test_indices, chars, split_chars) are         *)
(* sequences whose elements are the code's 0-based indices.  Cluster       *)
(* centers are points of a small integer grid whose pairwise Euclidean     *)
(* distances are integers, so that distances, their order and their means  *)
(* are exact (distinct centers are at a positive distance).  Scores are    *)
(* exact rationals; not-a-number scores are not modelled.                  *)
(***************************************************************************)
EXTENDS Integers, Sequences, FiniteSets, TLC

\* ------------------------------------------------------------------ bounds
MaxSamples  == 4    \* largest number of rows of X
MaxClusters == 4    \* largest n_clusters (number of k-means centers)
NSplits     == 2    \* n_splits of the splitters
GridW       == 3    \* cluster centers have x in 0..GridW
GridH       == 4    \* cluster centers have y in 0..GridH
NumSplitters == 2   \* number of candidate splitters given to MOODSplitter
MaxScore    == 1    \* a trial's representativeness score is one of 0..MaxScore
NumInputs   == 2    \* number of different (X, X_deployment) inputs fit is called with

\* ------------------------------------------------------- generic helpers
Range(f) == {f[x] : x \in DOMAIN f}

Min(S) == CHOOSE x \in S : \A y \in S : x <= y

RECURSIVE SumSeq(_)
SumSeq(s) == IF s = <<>> THEN 0 ELSE Head(s) + SumSeq(Tail(s))

RECURSIVE SortedSeq(_)
\* the elements of a finite set of integers in ascending order
SortedSeq(S) == IF S = {} THEN <<>> ELSE <<Min(S)>> \o SortedSeq(S \ {Min(S)})

Reverse(s) == [k \in 1..Len(s) |-> s[Len(s) + 1 - k]]

\* ------------------------------------------------------- numpy / sklearn
\* np.flatnonzero(group_indices == g): the sample indices of group g, ascending
flatnonzero(gi, g) == SortedSeq({s \in DOMAIN gi : gi[s] = g})

\* np.argmax(row): the FIRST index holding the maximum
argmax(row) ==
    Min({k \in DOMAIN row : \A l \in DOMAIN row : row[l] <= row[k]})

\* np.argsort(keys) with the default (unstable) sort returns the positions in
\* some order in which the keys ascend; the order among equal keys is not fixed.
\* The loops below read the result front to back and never look ahead, so the
\* model fixes the order one element at a time, when the loop reaches it.
\* ArgsortNext(keys, done): the positions that may follow the prefix `done` of
\* np.argsort(keys).
ArgsortNext(keys, done) ==
    { p \in DOMAIN keys \ Range(done) :
        \A q \in DOMAIN keys \ Range(done) : keys[p] <= keys[q] }

\* faulty variant of ArgsortReversedNext (sensitivity of C11): the [::-1] is
\* missing, the scan runs in ascending order
ArgsortReversedNext_NotReversed(keys, done) ==
    { p \in DOMAIN keys \ Range(done) :
        \A q \in DOMAIN keys \ Range(done) : keys[p] <= keys[q] }

\* ArgsortReversedNext(keys, done): the positions that may follow the prefix
\* `done` of np.argsort(keys)[::-1], i.e. that may precede the tail of the sort.
ArgsortReversedNext(keys, done) ==
    { p \in DOMAIN keys \ Range(done) :
        \A q \in DOMAIN keys \ Range(done) : keys[p] >= keys[q] }

\* np.tril_indices_from(distance_matrix, k=-1): the strictly-lower-triangle
\* entries (i, j), j < i, enumerated row by row
RECURSIVE TrilSeq(_)
TrilSeq(m) ==
    IF m <= 1 THEN <<>>
    ELSE TrilSeq(m - 1) \o [j \in 1..(m - 1) |-> <<m - 1, j - 1>>]

tril_indices(m) == [p \in 0..(Len(TrilSeq(m)) - 1) |-> TrilSeq(m)[p + 1]]

\* ------------------------------------------------- clustering outcomes
Points == (0..GridW) \X (0..GridH)

SqDist(p, q) == (p[1] - q[1]) * (p[1] - q[1]) + (p[2] - q[2]) * (p[2] - q[2])

IsSquare(n) == \E r \in 0..(GridW + GridH) : r * r = n

\* Euclidean distance of two grid points whose distance is an integer
Euclidean(p, q) == CHOOSE r \in 0..(GridW + GridH) : r * r = SqDist(p, q)

\* row order of np.unique(centers, axis=0): lexicographic
LexLess(p, q) == p[1] < q[1] \/ (p[1] = q[1] /\ p[2] < q[2])

RECURSIVE CenterRows(_)
\* the de-duplicated, sorted center arrays np.unique(centers, axis=0) can
\* return with m rows (restricted to integer pairwise distances)
CenterRows(m) ==
    IF m = 0 THEN {<<>>}
    ELSE { Append(cp[1], cp[2]) :
           cp \in { x \in CenterRows(m - 1) \X Points :
                      /\ (Len(x[1]) > 0 => LexLess(x[1][Len(x[1])], x[2]))
                      /\ \A k \in 1..Len(x[1]) : IsSquare(SqDist(x[1][k], x[2])) } }

\* pairwise_distances(centers, metric="euclidean")
pairwise_distances(c) ==
    [a \in 0..(Len(c) - 1) |-> [b \in 0..(Len(c) - 1) |-> Euclidean(c[a + 1], c[b + 1])]]

DistanceMatrices ==
    { pairwise_distances(c) : c \in UNION {CenterRows(m) : m \in 1..MaxClusters} }

NumGroups(dm) == Cardinality(DOMAIN dm)

\* the inverse index np.unique returns: every sample has one group and every
\* group (distinct center) has at least one sample
GroupIndices(n, m) == { gi \in [0..(n - 1) -> 0..(m - 1)] : Range(gi) = 0..(m - 1) }

\* _validate_shuffle_split: 1 <= n_test, 1 <= n_train, n_train + n_test <= n_samples
ShuffleSizes(n) == { nn \in (1..n) \X (1..n) : nn[1] + nn[2] <= n }

\* np.unique(group_indices): the group ids in use, ascending
groups_set(gi) ==
    [k \in 0..(Cardinality(Range(gi)) - 1) |-> SortedSeq(Range(gi))[k + 1]]

\* distance_matrix.mean(axis=0), in units of 1/M (M = number of groups): the
\* column sums.  All columns are divided by the same M, so the order and the
\* ties of the means are those of the sums.
mean_axis0(dm) ==
    [b \in DOMAIN dm |-> SumSeq([k \in 1..NumGroups(dm) |-> dm[k - 1][b]])]

\* ------------------------------------------------------------- state
VARIABLES
    \* --- a splitter's _iter_indices generator (PerimeterSplit / MaxDissimilaritySplit)
    pc,                        \* position of the generator
    n_samples, n_train, n_test,
    split_i,                   \* the trial: i of `for i in range(self.n_splits)`
    group_indices,             \* sample index -> group
    distance_matrix,           \* group x group center distances
    maximum_distance_indices,  \* PerimeterSplit: the part of the scan order (positions
                               \* into tril_indices) the scan has iterated over
    sorted_groups,             \* MaxDissimilaritySplit: the part of the growth order the
                               \* loop has iterated over
    remaining,                 \* PerimeterSplit: groups not yet put in test
    test_idx, train_idx,       \* MaxDissimilaritySplit: the anchors
    train_indices, test_indices

splitVars == <<pc, n_samples, n_train, n_test, split_i, group_indices, distance_matrix,
               maximum_distance_indices, sorted_groups, remaining,
               test_idx, train_idx, train_indices, test_indices>>

VARIABLES
    \* --- a MOODSplitter object
    downstream_distances,          \* self._downstream_distances
    split_chars,                   \* self._split_chars
    prescribed_splitter_label,     \* self._prescribed_splitter_label
    \* --- the fit call in progress
    fit_pc,                        \* "idle", or "candidates" inside the loop of line 226
    fit_input,                     \* the (X, X_deployment) input of the call
    fit_split_chars,               \* the local list split_chars of line 220
    fit_entry,                     \* the object's fields when the call was entered
                                   \* (kept while it runs and after it raised)
    scored_against,                \* downstream sample last passed to score_representativeness
                                   \* by the call (kept while it runs and after it raised)
    \* --- what the caller observed
    last_call                      \* the most recent call on the object and its outcome

moodVars == <<downstream_distances, split_chars, prescribed_splitter_label,
              fit_pc, fit_input, fit_split_chars, fit_entry, scored_against, last_call>>

vars == <<splitVars, moodVars>>

\* Python's None, and a field that holds a value
None == <<>>
Some(v) == <<v>>
Get(o) == o[1]

\* the splitter specifications have no MOODSplitter object
NoMoodSplitter ==
    /\ downstream_distances = None
    /\ split_chars = None
    /\ prescribed_splitter_label = None
    /\ fit_pc = "idle"
    /\ fit_input = None
    /\ fit_split_chars = <<>>
    /\ fit_entry = None
    /\ scored_against = None
    /\ last_call = None

\* Both splitters: _iter_indices is entered with X of n_samples rows; n_train and
\* n_test come from _validate_shuffle_split; the first trial is about to cluster.
SplitInit ==
    /\ pc = "cluster"
    /\ n_samples \in 2..MaxSamples
    /\ \E nn \in ShuffleSizes(n_samples) : n_train = nn[1] /\ n_test = nn[2]
    /\ split_i = 0
    /\ group_indices = <<>>
    /\ distance_matrix = <<>>
    /\ maximum_distance_indices = <<>>
    /\ sorted_groups = <<>>
    /\ remaining = {}
    /\ test_idx = 0
    /\ train_idx = 0
    /\ train_indices = <<>>
    /\ test_indices = <<>>
    /\ NoMoodSplitter

\* what the per-trial locals hold once a trial is over: they are dead (every one
\* is assigned again before it is read), so the model clears them
TrialLocalsCleared ==
    /\ group_indices' = <<>>
    /\ distance_matrix' = <<>>
    /\ maximum_distance_indices' = <<>>
    /\ sorted_groups' = <<>>
    /\ remaining' = {}
    /\ test_idx' = 0
    /\ train_idx' = 0
    /\ train_indices' = <<>>
    /\ test_indices' = <<>>

\* the clustering outcomes of one trial on X of n rows: compute_kmeans_clustering
\* followed by np.unique(centers, return_inverse=True, axis=0)
Clusterings(n) ==
    { c \in [distance_matrix : DistanceMatrices, group_indices : UNION {GroupIndices(n, m) : m \in 1..MaxClusters}] :
        Range(c.group_indices) = DOMAIN c.distance_matrix }

\* ------------------------------------------------------- PerimeterSplit
tril(dm) == tril_indices(NumGroups(dm))

\* distance_matrix[tril_indices]: the distance of each lower-triangle pair
TrilDistances(dm) == [p \in DOMAIN tril(dm) |-> dm[tril(dm)[p][1]][tril(dm)[p][2]]]

RECURSIVE GroupSamples(_, _)
\* the samples of the groups listed in gs, group after group
GroupSamples(gi, gs) ==
    IF gs = <<>> THEN <<>>
    ELSE flatnonzero(gi, groups_set(gi)[Head(gs)]) \o GroupSamples(gi, Tail(gs))

\* lines 412-414: the train set is every sample of every remaining group
PerimeterTrain(gi, rem) == GroupSamples(gi, SortedSeq(rem))

\* faulty variant of PerimeterTestExtended (sensitivity of C1): the second group
\* leaves `remaining` but its samples are never put in the test set
PerimeterTestExtended_DropsJ(test, gi, i, j) == test \o flatnonzero(gi, groups_set(gi)[i])

\* lines 407-410: groups i and j leave `remaining`; their samples extend the test set
PerimeterTestExtended(test, gi, i, j) ==
    test \o flatnonzero(gi, groups_set(gi)[i]) \o flatnonzero(gi, groups_set(gi)[j])

\* faulty variant of PerimeterStop (sensitivity of C7): stop only once n_test is exceeded
PerimeterStop_Exceeded(test, nt) == Len(test) > nt

\* line 395: the break condition of the scan
PerimeterStop(test, nt) == Len(test) >= nt

\* lines 376-392: cluster, de-duplicate the centers, compute the distances
PerimeterCluster ==
    /\ pc = "cluster"
    /\ \E c \in Clusterings(n_samples) :
         /\ distance_matrix' = c.distance_matrix
         /\ group_indices' = c.group_indices
         /\ remaining' = Range(groups_set(c.group_indices))
    /\ maximum_distance_indices' = <<>>
    /\ test_indices' = <<>>
    /\ train_indices' = <<>>
    /\ pc' = "scan"
    /\ UNCHANGED <<n_samples, n_train, n_test, split_i, sorted_groups, test_idx, train_idx>>
    /\ UNCHANGED moodVars

\* lines 412-416: leave the scan, build train from the remaining groups, yield
PerimeterFinish ==
    /\ train_indices' = PerimeterTrain(group_indices, remaining)
    /\ pc' = "yield"
    /\ UNCHANGED <<n_samples, n_train, n_test, split_i, group_indices, distance_matrix,
                   maximum_distance_indices, sorted_groups, remaining,
                   test_idx, train_idx, test_indices>>
    /\ UNCHANGED moodVars

\* lines 395-396: a pair is left to look at, but the test set has reached n_test
PerimeterBreak ==
    /\ pc = "scan"
    /\ Len(maximum_distance_indices) < Cardinality(DOMAIN tril(distance_matrix))
    /\ PerimeterStop(test_indices, n_test)
    /\ PerimeterFinish

\* line 394: every pair has been looked at
PerimeterExhausted ==
    /\ pc = "scan"
    /\ Len(maximum_distance_indices) = Cardinality(DOMAIN tril(distance_matrix))
    /\ PerimeterFinish

\* lines 404-405: one group of the next pair is already in the test set: continue
PerimeterSkip ==
    /\ pc = "scan"
    /\ ~PerimeterStop(test_indices, n_test)
    /\ \E p \in ArgsortReversedNext(TrilDistances(distance_matrix), maximum_distance_indices) :
         /\ ~(tril(distance_matrix)[p][1] \in remaining /\ tril(distance_matrix)[p][2] \in remaining)
         /\ maximum_distance_indices' = Append(maximum_distance_indices, p)
    /\ UNCHANGED <<pc, n_samples, n_train, n_test, split_i, group_indices, distance_matrix,
                   sorted_groups, remaining, test_idx, train_idx, train_indices, test_indices>>
    /\ UNCHANGED moodVars

\* lines 407-410: both groups of the next pair go to the test set, whole
PerimeterTake ==
    /\ pc = "scan"
    /\ ~PerimeterStop(test_indices, n_test)
    /\ \E p \in ArgsortReversedNext(TrilDistances(distance_matrix), maximum_distance_indices) :
         /\ tril(distance_matrix)[p][1] \in remaining /\ tril(distance_matrix)[p][2] \in remaining
         /\ maximum_distance_indices' = Append(maximum_distance_indices, p)
         /\ remaining' = (remaining \ {tril(distance_matrix)[p][1]}) \ {tril(distance_matrix)[p][2]}
         /\ test_indices' = PerimeterTestExtended(test_indices, group_indices,
                               tril(distance_matrix)[p][1], tril(distance_matrix)[p][2])
    /\ UNCHANGED <<pc, n_samples, n_train, n_test, split_i, group_indices, distance_matrix,
                   sorted_groups, test_idx, train_idx, train_indices>>
    /\ UNCHANGED moodVars

\* line 375: the consumer asks for the next split
PerimeterResume ==
    /\ pc = "yield"
    /\ split_i' = split_i + 1
    /\ pc' = IF split_i + 1 < NSplits THEN "cluster" ELSE "done"
    /\ TrialLocalsCleared
    /\ UNCHANGED <<n_samples, n_train, n_test>>
    /\ UNCHANGED moodVars

PerimeterNext ==
    \/ PerimeterCluster
    \/ PerimeterBreak
    \/ PerimeterExhausted
    \/ PerimeterSkip
    \/ PerimeterTake
    \/ PerimeterResume

SpecPerimeter == SplitInit /\ [][PerimeterNext]_vars

\* ------------------------------------------------- MaxDissimilaritySplit
\* line 472: the test anchor has the highest mean distance to the other groups
TestAnchor(dm) == argmax(mean_axis0(dm))

\* faulty variant of TrainAnchor (sensitivity of C6): argmin for argmax
TrainAnchor_Nearest(dm, t) ==
    Min({k \in DOMAIN dm[t] : \A l \in DOMAIN dm[t] : dm[t][k] <= dm[t][l]})

\* line 476: the train anchor is the group farthest from the test anchor
TrainAnchor(dm, t) == argmax(dm[t])

\* faulty variant of MaxDisNextGroups (sensitivity of C10): descending order
MaxDisNextGroups_Descending(dm, t, done) == ArgsortReversedNext(dm[t], done)

\* line 483-484: the groups that may come next in np.argsort(distance_matrix[train_idx])
MaxDisNextGroups(dm, t, done) == ArgsortNext(dm[t], done)

\* line 485: the break condition of the growth loop
MaxDisStop(train, nt) == Len(train) >= nt

\* line 495: list(set(range(n_samples)) - set(train_indices) - set(test_indices))
RemainingSamples(n, train, test) == SortedSeq(((0..(n - 1)) \ Range(train)) \ Range(test))

\* lines 459-483: cluster, de-duplicate the centers, pick the anchors, seed the sets
MaxDisCluster ==
    /\ pc = "cluster"
    /\ \E c \in Clusterings(n_samples) :
         LET dm == c.distance_matrix
             gi == c.group_indices
             t  == TestAnchor(dm)
             tr == TrainAnchor(dm, t)
         IN  /\ distance_matrix' = dm
             /\ group_indices' = gi
             /\ test_idx' = t
             /\ train_idx' = tr
             /\ train_indices' = flatnonzero(gi, groups_set(gi)[tr])
             /\ test_indices' = flatnonzero(gi, groups_set(gi)[t])
    /\ sorted_groups' = <<>>
    /\ pc' = "grow"
    /\ UNCHANGED <<n_samples, n_train, n_test, split_i, maximum_distance_indices, remaining>>
    /\ UNCHANGED moodVars

\* lines 494-498: whatever is in neither set is appended to the test set; yield
MaxDisFinish ==
    /\ test_indices' = test_indices \o RemainingSamples(n_samples, train_indices, test_indices)
    /\ pc' = "yield"
    /\ UNCHANGED <<n_samples, n_train, n_test, split_i, group_indices, distance_matrix,
                   maximum_distance_indices, sorted_groups, remaining,
                   test_idx, train_idx, train_indices>>
    /\ UNCHANGED moodVars

\* lines 485-486: a group is left to look at, but the train set has reached n_train
MaxDisBreak ==
    /\ pc = "grow"
    /\ Len(sorted_groups) < NumGroups(distance_matrix)
    /\ MaxDisStop(train_indices, n_train)
    /\ MaxDisFinish

\* line 484: every group has been looked at
MaxDisExhausted ==
    /\ pc = "grow"
    /\ Len(sorted_groups) = NumGroups(distance_matrix)
    /\ MaxDisFinish

\* lines 488-489: the next group is one of the anchors: continue
MaxDisSkip ==
    /\ pc = "grow"
    /\ ~MaxDisStop(train_indices, n_train)
    /\ \E g \in MaxDisNextGroups(distance_matrix, train_idx, sorted_groups) :
         /\ g = train_idx \/ g = test_idx
         /\ sorted_groups' = Append(sorted_groups, g)
    /\ UNCHANGED <<pc, n_samples, n_train, n_test, split_i, group_indices, distance_matrix,
                   maximum_distance_indices, remaining, test_idx, train_idx,
                   train_indices, test_indices>>
    /\ UNCHANGED moodVars

\* lines 491-492: the next group joins the train set, whole
MaxDisAdd ==
    /\ pc = "grow"
    /\ ~MaxDisStop(train_indices, n_train)
    /\ \E g \in MaxDisNextGroups(distance_matrix, train_idx, sorted_groups) :
         /\ ~(g = train_idx \/ g = test_idx)
         /\ sorted_groups' = Append(sorted_groups, g)
         /\ train_indices' = train_indices
                               \o flatnonzero(group_indices, groups_set(group_indices)[g])
    /\ UNCHANGED <<pc, n_samples, n_train, n_test, split_i, group_indices, distance_matrix,
                   maximum_distance_indices, remaining, test_idx, train_idx, test_indices>>
    /\ UNCHANGED moodVars

\* line 457: the consumer asks for the next split
MaxDisResume ==
    /\ pc = "yield"
    /\ split_i' = split_i + 1
    /\ pc' = IF split_i + 1 < NSplits THEN "cluster" ELSE "done"
    /\ TrialLocalsCleared
    /\ UNCHANGED <<n_samples, n_train, n_test>>
    /\ UNCHANGED moodVars

MaxDisNext ==
    \/ MaxDisCluster
    \/ MaxDisBreak
    \/ MaxDisExhausted
    \/ MaxDisSkip
    \/ MaxDisAdd
    \/ MaxDisResume

SpecMaxDis == SplitInit /\ [][MaxDisNext]_vars

\* ----------------------------------------------------------- MOODSplitter
\* line 27
MOOD_SPLITTERS == <<"Random", "Scaffold", "Perimeter", "Maximum Dissimilarity">>

\* the keys of self._splitters, in the order fit iterates over them (line 222)
SplitterNames == [k \in 1..NumSplitters |-> MOOD_SPLITTERS[k]]

\* self._splitters: the splitter object registered under each name
splitters == [name \in Range(SplitterNames) |-> [splitter_registered_as |-> name]]

\* the inputs of a fit call: input c passes its own X and its own X_deployment
FitInputs == 1..NumInputs
XOf(c) == <<"X", c>>
XDeploymentOf(c) == <<"X_deployment", c>>

\* lines 185-196: the k-NN mean distances from X_from to X_to, kept symbolic
compute_distance(X_from, X_to) == [query |-> X_from, reference |-> X_to]

\* a downstream_distances array given to the constructor (line 136)
SuppliedDistances == [query |-> <<"downstream", 0>>, reference |-> <<"downstream", 0>>]

\* Scores are exact rationals <<numerator, denominator>>, denominator > 0
RatLess(a, b) == a[1] * b[2] < b[1] * a[2]
RatEq(a, b) == a[1] * b[2] = b[1] * a[2]

\* lines 47-56
SplitCharacterization(distances, representativeness, label) ==
    [distances |-> distances, representativeness |-> representativeness, label |-> label]

RECURSIVE ConcatDistances(_)
ConcatDistances(splits) ==
    IF splits = <<>> THEN <<>> ELSE Head(splits).distances \o ConcatDistances(Tail(splits))

\* line 65: np.mean of the per-trial scores (each a whole number of score units)
np_mean(splits) == <<SumSeq([k \in 1..Len(splits) |-> splits[k].representativeness[1]]), Len(splits)>>

\* lines 58-66 (fit only concatenates characterizations of one label, at least one)
concat(splits) == SplitCharacterization(ConcatDistances(splits), np_mean(splits), splits[1].label)

\* faulty variant of best (sensitivity of C3): min for max
best_Min(splits) ==
    splits[Min({k \in 1..Len(splits) :
                  \A j \in 1..Len(splits) :
                     ~RatLess(splits[j].representativeness, splits[k].representativeness)})]

\* lines 68-70: max(splits, key=representativeness) returns the FIRST maximal element
best(splits) ==
    splits[Min({k \in 1..Len(splits) :
                  \A j \in 1..Len(splits) :
                     ~RatLess(splits[k].representativeness, splits[j].representativeness)})]

\* lines 89-90: __eq__
CharEq(a, b) == a.label = b.label /\ RatEq(a.representativeness, b.representativeness)

\* the sort order of Series.rank: ascending, or descending for ascending=False
Before(a, b, ascending) == IF ascending THEN RatLess(a, b) ELSE RatLess(b, a)

RECURSIVE SortedPositions(_, _, _)
\* the positions S of `values`, sorted; equal values keep their order
SortedPositions(values, S, ascending) ==
    IF S = {} THEN <<>>
    ELSE <<Min({a \in S : \A b \in S : ~Before(values[b], values[a], ascending)})>>
         \o SortedPositions(values,
               S \ {Min({a \in S : \A b \in S : ~Before(values[b], values[a], ascending)})},
               ascending)

\* Series.rank with the default method="average": sort, number the sorted rows
\* 1..n, and give every row the mean of the numbers of the rows equal to it
AverageRank(values, ascending) ==
    LET order == SortedPositions(values, DOMAIN values, ascending)
        ties(k) == {j \in DOMAIN values : RatEq(values[j], values[k])}
    IN  [k \in DOMAIN values |->
            <<SumSeq([o \in 1..Len(order) |-> IF order[o] \in ties(k) THEN o ELSE 0]),
              Cardinality(ties(k))>>]

\* faulty variant of rank (sensitivity of C8): ascending=True, the default
rank_Ascending(values) == AverageRank(values, TRUE)

\* line 86: df["representativeness"].rank(ascending=False)
rank(values) == AverageRank(values, FALSE)

\* lines 72-87
as_dataframe(splits) ==
    [k \in 1..Len(splits) |->
        [split |-> splits[k].label,
         representativeness |-> splits[k].representativeness,
         best |-> CharEq(splits[k], best(splits)),
         rank |-> rank([j \in 1..Len(splits) |-> splits[j].representativeness])[k]]]

\* lines 181-183
fitted == prescribed_splitter_label # None

ObjectFields == <<downstream_distances, split_chars, prescribed_splitter_label>>

NotFittedError == "RuntimeError: The splitter has not be fitted yet"
NoneNotIterable == "TypeError: 'NoneType' object is not iterable"

Raised(op, e) == [op |-> op, outcome |-> e, value |-> None]
Returned(op, v) == [op |-> op, outcome |-> "returned", value |-> Some(v)]

\* lines 175-179
prescribed_splitter_label_get(op) ==
    IF ~fitted THEN Raised(op, NotFittedError)
    ELSE Returned(op, Get(prescribed_splitter_label))

\* lines 198-199
get_prescribed_splitter(op) ==
    IF prescribed_splitter_label_get(op).outcome # "returned"
    THEN prescribed_splitter_label_get(op)
    ELSE Returned(op, splitters[Get(prescribed_splitter_label_get(op).value)])

\* lines 201-202: no fitted check; as_dataframe(None) calls max(None, key=...)
get_protocol_results(op) ==
    IF split_chars = None THEN Raised(op, NoneNotIterable)
    ELSE Returned(op, as_dataframe(Get(split_chars)))

\* lines 262-266: the value is the splitter whose _iter_indices it yields from
iter_indices(op) ==
    IF ~fitted THEN Raised(op, NotFittedError)
    ELSE get_prescribed_splitter(op)

\* lines 107-139: a MOODSplitter was constructed with or without downstream_distances
MoodInit ==
    /\ downstream_distances \in {None, Some(SuppliedDistances)}
    /\ split_chars = None
    /\ prescribed_splitter_label = None
    /\ fit_pc = "idle"
    /\ fit_input = None
    /\ fit_split_chars = <<>>
    /\ fit_entry = None
    /\ scored_against = None
    /\ last_call = Returned("__init__", "self")
    /\ pc = "none"
    /\ n_samples = 0 /\ n_train = 0 /\ n_test = 0 /\ split_i = 0
    /\ group_indices = <<>> /\ distance_matrix = <<>>
    /\ maximum_distance_indices = <<>> /\ sorted_groups = <<>>
    /\ remaining = {} /\ test_idx = 0 /\ train_idx = 0
    /\ train_indices = <<>> /\ test_indices = <<>>

\* lines 215-222: fit(X, X_deployment=...) is entered; the downstream sample is
\* computed and STORED IN THE OBJECT if the object has none
FitEnter ==
    /\ fit_pc = "idle"
    /\ \E c \in FitInputs :
         /\ fit_input' = Some(c)
         /\ downstream_distances' =
              IF downstream_distances = None
              THEN Some(compute_distance(XDeploymentOf(c), XOf(c)))
              ELSE downstream_distances
    /\ fit_entry' = Some(ObjectFields)
    /\ fit_split_chars' = <<>>
    /\ scored_against' = None
    /\ fit_pc' = "candidates"
    /\ last_call' = [op |-> "fit", outcome |-> "running", value |-> None]
    /\ UNCHANGED <<split_chars, prescribed_splitter_label>>
    /\ UNCHANGED splitVars

\* line 216: _compute_distance raises (no X_deployment, fewer than k rows in X)
FitEnterRaises ==
    /\ fit_pc = "idle"
    /\ downstream_distances = None
    /\ \E c \in FitInputs : fit_input' = Some(c)
    /\ fit_entry' = Some(ObjectFields)
    /\ fit_split_chars' = <<>>
    /\ scored_against' = None
    /\ last_call' = Raised("fit", "raised")
    /\ UNCHANGED <<downstream_distances, split_chars, prescribed_splitter_label, fit_pc>>
    /\ UNCHANGED splitVars

\* lines 226-244: one candidate: every trial's split is scored against
\* self._downstream_distances, the trials are merged
FitCandidate ==
    /\ fit_pc = "candidates"
    /\ Len(fit_split_chars) < NumSplitters
    /\ \E scores \in [1..NSplits -> 0..MaxScore] :
         fit_split_chars' =
            Append(fit_split_chars,
                   concat([t \in 1..NSplits |->
                             SplitCharacterization(<<t>>, <<scores[t], 1>>,
                                                   SplitterNames[Len(fit_split_chars) + 1])]))
    /\ scored_against' = downstream_distances
    /\ UNCHANGED <<downstream_distances, split_chars, prescribed_splitter_label,
                   fit_pc, fit_input, fit_entry, last_call>>
    /\ UNCHANGED splitVars

\* lines 231-244: the candidate's splitter, the distance computation or the
\* scoring raises in some trial; the error leaves fit
FitCandidateRaises ==
    /\ fit_pc = "candidates"
    /\ Len(fit_split_chars) < NumSplitters
    /\ \E trials_scored \in 0..(NSplits - 1) :
         scored_against' = IF trials_scored > 0 THEN downstream_distances ELSE scored_against
    /\ fit_pc' = "idle"
    /\ fit_split_chars' = <<>>
    /\ last_call' = Raised("fit", "raised")
    /\ UNCHANGED <<downstream_distances, split_chars, prescribed_splitter_label,
                   fit_input, fit_entry>>
    /\ UNCHANGED splitVars

\* lines 248-256: every candidate is characterized: choose, commit, return
\* (plot=False, the default: nothing runs after the commit but logging)
FitCommit ==
    /\ fit_pc = "candidates"
    /\ Len(fit_split_chars) = NumSplitters
    /\ split_chars' = Some(fit_split_chars)
    /\ prescribed_splitter_label' = Some(best(fit_split_chars).label)
    /\ fit_pc' = "idle"
    /\ fit_split_chars' = <<>>
    /\ last_call' = Returned("fit", "None")
    /\ fit_input' = None
    /\ fit_entry' = None
    /\ scored_against' = None
    /\ UNCHANGED downstream_distances
    /\ UNCHANGED splitVars

\* a call that is not fit: what the last fit call left behind is no longer looked at
Accessor(result) ==
    /\ fit_pc = "idle"
    /\ last_call' = result
    /\ fit_input' = None
    /\ fit_entry' = None
    /\ scored_against' = None
    /\ UNCHANGED <<downstream_distances, split_chars, prescribed_splitter_label,
                   fit_pc, fit_split_chars>>
    /\ UNCHANGED splitVars

CallPrescribedSplitterLabel == Accessor(prescribed_splitter_label_get("prescribed_splitter_label"))
CallGetPrescribedSplitter == Accessor(get_prescribed_splitter("get_prescribed_splitter"))
CallGetProtocolResults == Accessor(get_protocol_results("get_protocol_results"))
CallIterIndices == Accessor(iter_indices("_iter_indices"))

MoodNext ==
    \/ FitEnter
    \/ FitEnterRaises
    \/ FitCandidate
    \/ FitCandidateRaises
    \/ FitCommit
    \/ CallPrescribedSplitterLabel
    \/ CallGetPrescribedSplitter
    \/ CallGetProtocolResults
    \/ CallIterIndices

SpecMOOD == MoodInit /\ [][MoodNext]_vars

\* ------------------------------------------------ claims on the splitters
Groups == DOMAIN distance_matrix

SamplesOf(g) == {x \in DOMAIN group_indices : group_indices[x] = g}

Occurrences(x, seq) == Cardinality({k \in 1..Len(seq) : seq[k] = x})

MaxGroupSize == CHOOSE c \in 1..n_samples :
                  /\ \E g \in Groups : Cardinality(SamplesOf(g)) = c
                  /\ \A g \in Groups : Cardinality(SamplesOf(g)) <= c

\* C1: PerimeterSplit: in every yielded split the train and test index sets are
\* disjoint, together they are exactly 0..N-1 with no index repeated, and every
\* cluster lies whole in exactly one of the two.
C1_PerimeterPartition ==
    pc = "yield" =>
        /\ Range(train_indices) \cap Range(test_indices) = {}
        /\ Range(train_indices) \cup Range(test_indices) = 0..(n_samples - 1)
        /\ Len(train_indices) + Len(test_indices) = n_samples
        /\ \A g \in Groups :
             \/ SamplesOf(g) \subseteq Range(train_indices)
             \/ SamplesOf(g) \subseteq Range(test_indices)

\* C1 witness: a split is yielded after a pair was taken and a later pair skipped,
\* with clusters on both sides
C1_Witness ==
    /\ pc = "yield"
    /\ train_indices # <<>>
    /\ test_indices # <<>>
    /\ Len(maximum_distance_indices) > 1

\* C7 as stated: the yielded test set exceeds n_test by at most the size of the
\* largest cluster.
C7_Original ==
    pc = "yield" => Len(test_indices) <= n_test + MaxGroupSize

\* C7 amended: the scan adds a whole PAIR of clusters after finding the test set
\* still below n_test, so a non-empty yielded test set holds a pair of clusters
\* without which it is smaller than n_test; hence it is at most
\* n_test - 1 + 2 * (size of the largest cluster).
C7_PairOvershoot ==
    pc = "yield" =>
        /\ \/ test_indices = <<>>
           \/ \E i, j \in Groups :
                /\ i # j
                /\ SamplesOf(i) \cup SamplesOf(j) \subseteq Range(test_indices)
                /\ Len(test_indices) - Cardinality(SamplesOf(i)) - Cardinality(SamplesOf(j))
                     < n_test
        /\ Len(test_indices) <= n_test - 1 + 2 * MaxGroupSize

\* C7 witness: a yielded test set that overshoots n_test by more than one cluster
C7_Witness ==
    /\ pc = "yield"
    /\ Len(test_indices) > n_test + MaxGroupSize

\* C2 as stated: MaxDissimilaritySplit: in every yielded split every sample index
\* of 0..N-1 occurs exactly once in train and test together.
C2_Original ==
    pc = "yield" =>
        \A x \in 0..(n_samples - 1) : Occurrences(x, train_indices \o test_indices) = 1

\* C6: MaxDissimilaritySplit with exactly two distinct clusters: the anchors are
\* the two different clusters, test is exactly the samples of the test anchor
\* and train exactly the samples of the train anchor.
C6_TwoClusters ==
    (pc = "yield" /\ NumGroups(distance_matrix) = 2) =>
        /\ test_idx # train_idx
        /\ Range(test_indices) = SamplesOf(test_idx)
        /\ Len(test_indices) = Cardinality(SamplesOf(test_idx))
        /\ Range(train_indices) = SamplesOf(train_idx)
        /\ Len(train_indices) = Cardinality(SamplesOf(train_idx))

\* C6 witness: two clusters, yielded with the train set still short of n_train
C6_Witness ==
    /\ pc = "yield"
    /\ NumGroups(distance_matrix) = 2
    /\ Len(train_indices) < n_train
    /\ Len(test_indices) > n_test

NonAnchors == Groups \ {train_idx, test_idx}

AccessorOps == {"prescribed_splitter_label", "get_prescribed_splitter",
                "get_protocol_results", "_iter_indices"}

IsMaximal(chars, k) ==
    \A j \in 1..Len(chars) : ~RatLess(chars[k].representativeness, chars[j].representativeness)

\* C3: once a fit has succeeded, the object holds one characterization per
\* candidate, the prescribed label is the label of a characterization whose
\* score is >= every other one's, and get_prescribed_splitter / _iter_indices
\* hand over the splitter registered under the label of such a characterization.
C3_PrescribedIsBest ==
    fitted =>
        /\ split_chars # None
        /\ Len(Get(split_chars)) = NumSplitters
        /\ \A k \in 1..NumSplitters : Get(split_chars)[k].label = SplitterNames[k]
        /\ \E k \in 1..NumSplitters :
             /\ IsMaximal(Get(split_chars), k)
             /\ Get(split_chars)[k].label = Get(prescribed_splitter_label)
        /\ last_call.op \in {"get_prescribed_splitter", "_iter_indices"} =>
             /\ last_call.outcome = "returned"
             /\ \E k \in 1..NumSplitters :
                  /\ IsMaximal(Get(split_chars), k)
                  /\ last_call.value = Some(splitters[SplitterNames[k]])

\* C3 witness: after a fit in which the first candidate is not the best one,
\* _iter_indices has delegated to a splitter
C3_Witness ==
    /\ fitted
    /\ last_call.op = "_iter_indices"
    /\ last_call.outcome = "returned"
    /\ ~IsMaximal(Get(split_chars), 1)

\* C4 as stated: a fit call that raised left the object's fields (downstream
\* distance sample, characterizations, prescribed label) as they were when the
\* call was entered.
C4_Original ==
    (last_call.op = "fit" /\ last_call.outcome = "raised") => fit_entry = Some(ObjectFields)

\* C5 as stated: before the first successful fit every read accessor fails with
\* the not-fitted error; after a successful fit every read accessor returns.
C5_Original ==
    last_call.op \in AccessorOps =>
        last_call.outcome = (IF fitted THEN "returned" ELSE NotFittedError)

\* C9 as stated: on an object constructed without a downstream sample, whatever
\* a fit call scores is scored against the k-NN distances from that call's
\* X_deployment to that call's X.
C9_Original ==
    (downstream_distances # Some(SuppliedDistances) /\ scored_against # None) =>
        scored_against =
            Some(compute_distance(XDeploymentOf(Get(fit_input)), XOf(Get(fit_input))))

ReportRows == Get(last_call.value)

NumGreater(rows, k) ==
    Cardinality({j \in 1..Len(rows) :
                   RatLess(rows[k].representativeness, rows[j].representativeness)})

NumEqual(rows, k) ==
    Cardinality({j \in 1..Len(rows) :
                   RatEq(rows[k].representativeness, rows[j].representativeness)})

NumDistinctGreater(rows, k) ==
    Cardinality({rows[j].representativeness[1] * rows[k].representativeness[2] :
                   j \in {i \in 1..Len(rows) :
                            RatLess(rows[k].representativeness, rows[i].representativeness)}})

\* C8 as stated: the reported rank is the dense rank by descending score: one
\* more than the number of distinct scores that are strictly greater.
C8_Original ==
    (last_call.op = "get_protocol_results" /\ last_call.outcome = "returned") =>
        \A k \in 1..Len(ReportRows) :
            RatEq(ReportRows[k].rank, <<1 + NumDistinctGreater(ReportRows, k), 1>>)

\* C8 amended: the reported rank is the average rank by descending score: the
\* number of candidates with a strictly greater score plus half of (the number
\* of candidates with the same score, itself included, plus one); equal scores
\* have equal ranks and a greater score has a smaller rank.
C8_AverageRank ==
    (last_call.op = "get_protocol_results" /\ last_call.outcome = "returned") =>
        /\ Len(ReportRows) = NumSplitters
        /\ \A k \in 1..Len(ReportRows) :
             RatEq(ReportRows[k].rank,
                   <<2 * NumGreater(ReportRows, k) + NumEqual(ReportRows, k) + 1, 2>>)
        /\ \A j, k \in 1..Len(ReportRows) :
             /\ RatEq(ReportRows[j].representativeness, ReportRows[k].representativeness)
                  => RatEq(ReportRows[j].rank, ReportRows[k].rank)
             /\ RatLess(ReportRows[j].representativeness, ReportRows[k].representativeness)
                  => RatLess(ReportRows[k].rank, ReportRows[j].rank)

\* C8 witness: a report in which the two best candidates tie and are both ranked 1.5
C8_Witness ==
    /\ last_call.op = "get_protocol_results"
    /\ last_call.outcome = "returned"
    /\ \E j, k \in 1..Len(ReportRows) :
         /\ j # k
         /\ RatEq(ReportRows[j].representativeness, ReportRows[k].representativeness)
         /\ NumGreater(ReportRows, k) = 0
         /\ RatEq(ReportRows[k].rank, <<3, 2>>)

\* ------------------------------------- claims on the PerimeterSplit scan order
\* the distance of the pair at position p of the lower triangle
PairDistance(p) == TrilDistances(distance_matrix)[p]

\* the lower-triangle positions whose pair is at maximal distance
MaximalPairs ==
    {p \in DOMAIN tril(distance_matrix) :
        \A q \in DOMAIN tril(distance_matrix) : PairDistance(q) <= PairDistance(p)}

\* the samples of the two groups of the pair at position p, as lines 408-410 list them
PairSamples(p) ==
    flatnonzero(group_indices, groups_set(group_indices)[tril(distance_matrix)[p][1]])
      \o flatnonzero(group_indices, groups_set(group_indices)[tril(distance_matrix)[p][2]])

Scanning == pc \in {"scan", "yield"}

\* C11 as stated: the pairs are scanned in non-increasing order of distance with
\* pairs of equal distance in matrix iteration order (ascending lower-triangle
\* position), so with M >= 2 the first pair put in the test set is the
\* first-enumerated pair of maximal distance.
C11_Original ==
    Scanning =>
        /\ \A a, b \in 1..Len(maximum_distance_indices) :
             a < b =>
               \/ PairDistance(maximum_distance_indices[a]) > PairDistance(maximum_distance_indices[b])
               \/ /\ PairDistance(maximum_distance_indices[a]) = PairDistance(maximum_distance_indices[b])
                  /\ maximum_distance_indices[a] < maximum_distance_indices[b]
        /\ (NumGroups(distance_matrix) >= 2 /\ pc = "yield") =>
             /\ maximum_distance_indices[1] = Min(MaximalPairs)
             /\ SubSeq(test_indices, 1, Len(PairSamples(Min(MaximalPairs))))
                  = PairSamples(Min(MaximalPairs))

\* C11 amended: the pairs are scanned, each once, in non-increasing order of
\* distance (no pair not yet scanned is farther apart than a scanned one); the
\* order among pairs of equal distance is not the matrix iteration order; with
\* M >= 2 the first pair scanned is a pair of maximal distance and its two groups
\* are the first samples of the test set.
C11_NonIncreasingScan ==
    Scanning =>
        /\ \A a, b \in 1..Len(maximum_distance_indices) :
             a < b =>
               /\ maximum_distance_indices[a] # maximum_distance_indices[b]
               /\ PairDistance(maximum_distance_indices[a]) >= PairDistance(maximum_distance_indices[b])
        /\ \A a \in 1..Len(maximum_distance_indices) :
             \A q \in DOMAIN tril(distance_matrix) \ Range(maximum_distance_indices) :
                PairDistance(q) <= PairDistance(maximum_distance_indices[a])
        /\ (NumGroups(distance_matrix) >= 2 /\ pc = "yield") =>
             /\ Len(maximum_distance_indices) >= 1
             /\ maximum_distance_indices[1] \in MaximalPairs
             /\ SubSeq(test_indices, 1, Len(PairSamples(maximum_distance_indices[1])))
                  = PairSamples(maximum_distance_indices[1])

\* C11 witness: two pairs tie at the maximal distance, the later-enumerated one
\* was scanned first and put in the test set, and the other was scanned after it
C11_Witness ==
    /\ pc = "yield"
    /\ Len(maximum_distance_indices) >= 2
    /\ Cardinality(MaximalPairs) >= 2
    /\ maximum_distance_indices[1] \in MaximalPairs
    /\ maximum_distance_indices[1] # Min(MaximalPairs)
    /\ maximum_distance_indices[2] = Min(MaximalPairs)
====
